---- MODULE Spec2Model ----
(***************************************************************************)
(* Model of shared_data/step5_cross_calc.py: Step5CrossCalc, the stage     *)
(* that pairs the okx and binance record of every symbol, computes the     *)
(* price and funding-rate divergence and keeps cumulative statistics.      *)
(*                                                                         *)
(* Three specifications share the variables:                               *)
(*   Spec       sequences of process() calls on one instance               *)
(*   SpecMerge  one _merge_pair() call on a group drawn from a wide set    *)
(*              of prices and rates                                        *)
(*   SpecParse  one _safe_float() call on an input drawn from every text   *)
(*              up to MaxTextLen characters and a list of named inputs     *)
(*                                                                         *)
(* Logging (logger.*, _should_log, last_log_time) is left out: it reads    *)
(* and writes nothing that process() returns or counts.                    *)
(***************************************************************************)
EXTENDS Integers, Sequences, FiniteSets, TLC

VARIABLES stats, clock, calls, ret, steps, arg, res

vars == <<stats, clock, calls, ret, steps, arg, res>>

(***************************************************************************)
(* Bounds of the model.                                                    *)
(***************************************************************************)
\* process() calls made on the instance
MaxCalls == 2
\* records in one batch
MaxBatch == 3
\* characters of a generated text handed to _safe_float
MaxTextLen == 3
\* significant decimal digits a float keeps (a double keeps 15 to 17)
Precision == 6

(***************************************************************************)
(* Python float, as a decimal floating point number of Precision digits.   *)
(*   [k |-> "fin", s, m, e]  the number s * m * 10^e, m without trailing   *)
(*                           zeros, zero as s = 1, m = 0, e = 0            *)
(*   [k |-> "inf", s]        plus or minus infinity                        *)
(*   [k |-> "nan"]           not a number                                  *)
(***************************************************************************)
RECURSIVE Pow10(_)
Pow10(n) == IF n <= 0 THEN 1 ELSE 10 * Pow10(n - 1)

RECURSIVE NumDigits(_)
NumDigits(m) == IF m < 10 THEN 1 ELSE 1 + NumDigits(m \div 10)

NaN == [k |-> "nan"]
Inf(s) == [k |-> "inf", s |-> s]
Zero == [k |-> "fin", s |-> 1, m |-> 0, e |-> 0]

RECURSIVE StripZeros(_, _)
StripZeros(m, e) == IF m % 10 = 0 THEN StripZeros(m \div 10, e + 1) ELSE <<m, e>>

RECURSIVE Truncate(_, _)
Truncate(m, e) ==
    IF NumDigits(m) > Precision THEN Truncate(m \div 10, e + 1) ELSE <<m, e>>

\* decimal exponents of the largest and the smallest double, 1.797693e308 and
\* 5e-324: a magnitude of 1e309 or more overflows, one below 1e-324 underflows
DblMaxExp == 308
DblMinExp == -324

\* the float nearest to s * m * 10^e: overflow gives infinity, underflow zero
Fin(s, m, e) ==
    IF m = 0 THEN Zero
    ELSE LET t == Truncate(m, e)
             z == StripZeros(t[1], t[2])
             order == NumDigits(z[1]) + z[2]
         IN  IF order > DblMaxExp + 1 THEN Inf(s)
             ELSE IF order < DblMinExp + 1 THEN Zero
             ELSE [k |-> "fin", s |-> s, m |-> z[1], e |-> z[2]]

IsFin(x) == x.k = "fin"
IsNaN(x) == x.k = "nan"
IsInf(x) == x.k = "inf"

\* -1, 0, 1: how the magnitudes of two finite numbers compare
CmpMag(a, b) ==
    IF a.m = 0 \/ b.m = 0
    THEN (IF a.m = b.m THEN 0 ELSE IF a.m = 0 THEN -1 ELSE 1)
    ELSE LET oa == NumDigits(a.m) + a.e
             ob == NumDigits(b.m) + b.e
             lo == IF a.e < b.e THEN a.e ELSE b.e
             ma == a.m * Pow10(a.e - lo)
             mb == b.m * Pow10(b.e - lo)
         IN  IF oa # ob THEN (IF oa < ob THEN -1 ELSE 1)
             ELSE IF ma = mb THEN 0 ELSE IF ma < mb THEN -1 ELSE 1

\* a < b; every comparison with nan is false
Lt(a, b) ==
    CASE IsNaN(a) \/ IsNaN(b) -> FALSE
      [] IsInf(a) /\ IsInf(b) -> a.s < b.s
      [] IsInf(a) -> a.s < 0
      [] IsInf(b) -> b.s > 0
      [] OTHER ->
           IF a.s # b.s THEN a.s < b.s /\ ~(a.m = 0 /\ b.m = 0)
           ELSE IF a.s > 0 THEN CmpMag(a, b) < 0 ELSE CmpMag(a, b) > 0

Gt(a, b) == Lt(b, a)

\* abs(x)
Abs(x) == IF IsNaN(x) THEN x ELSE [x EXCEPT !.s = 1]

Neg(x) ==
    IF IsNaN(x) \/ (IsFin(x) /\ x.m = 0) THEN x ELSE [x EXCEPT !.s = -x.s]

\* min(a, b) as Python evaluates it: b when b < a, else a
Min(a, b) == IF Lt(b, a) THEN b ELSE a

\* the mantissa of finite x at exponent w, digits below w cut off
AtExp(x, w) ==
    IF x.e >= w THEN x.m * Pow10(x.e - w)
    ELSE IF w - x.e > 9 THEN 0 ELSE x.m \div Pow10(w - x.e)

\* a + b of two finite numbers, with one guard digit
AddFin(a, b) ==
    IF a.m = 0 THEN b
    ELSE IF b.m = 0 THEN a
    ELSE LET oa == NumDigits(a.m) + a.e
             ob == NumDigits(b.m) + b.e
             hi == IF oa > ob THEN oa ELSE ob
             lo == IF a.e < b.e THEN a.e ELSE b.e
             w == IF lo > hi - (Precision + 1) THEN lo ELSE hi - (Precision + 1)
             sum == a.s * AtExp(a, w) + b.s * AtExp(b, w)
         IN  IF sum < 0 THEN Fin(-1, -sum, w) ELSE Fin(1, sum, w)

\* a - b
Sub(a, b) ==
    CASE IsNaN(a) \/ IsNaN(b) -> NaN
      [] IsInf(a) /\ IsInf(b) -> IF a.s = b.s THEN NaN ELSE a
      [] IsInf(a) -> a
      [] IsInf(b) -> Neg(b)
      [] OTHER -> AddFin(a, Neg(b))

\* a / b for b # 0
Div(a, b) ==
    CASE IsNaN(a) \/ IsNaN(b) -> NaN
      [] IsInf(a) /\ IsInf(b) -> NaN
      [] IsInf(a) -> Inf(a.s * b.s)
      [] IsInf(b) -> Zero
      [] OTHER ->
           LET k == 9 - NumDigits(a.m)
           IN  Fin(a.s * b.s, (a.m * Pow10(k)) \div b.m, a.e - k - b.e)

\* x * 100
Mul100(x) == IF IsFin(x) THEN Fin(x.s, x.m, x.e + 2) ELSE x

(***************************************************************************)
(* Text: a Python str as a sequence of one-character strings.              *)
(***************************************************************************)
Digit == {"0", "1", "2", "3", "4", "5", "6", "7", "8", "9"}

DigitVal(c) ==
    CASE c = "0" -> 0 [] c = "1" -> 1 [] c = "2" -> 2 [] c = "3" -> 3
      [] c = "4" -> 4 [] c = "5" -> 5 [] c = "6" -> 6 [] c = "7" -> 7
      [] c = "8" -> 8 [] c = "9" -> 9

\* str.lower(), on the letters the texts use
LowerChar(c) ==
    CASE c = "N" -> "n" [] c = "A" -> "a" [] c = "I" -> "i" [] c = "F" -> "f"
      [] c = "E" -> "e" [] OTHER -> c

Lower(t) == [i \in 1..Len(t) |-> LowerChar(t[i])]

RECURSIVE LStrip(_)
LStrip(t) == IF t # <<>> /\ Head(t) = " " THEN LStrip(Tail(t)) ELSE t

RECURSIVE RStrip(_)
RStrip(t) ==
    IF t # <<>> /\ t[Len(t)] = " " THEN RStrip(SubSeq(t, 1, Len(t) - 1)) ELSE t

\* str.strip()
Strip(t) == RStrip(LStrip(t))

\* str.replace(',', '')
RECURSIVE RemoveCommas(_)
RemoveCommas(t) ==
    IF t = <<>> THEN <<>>
    ELSE IF Head(t) = "," THEN RemoveCommas(Tail(t))
    ELSE <<Head(t)>> \o RemoveCommas(Tail(t))

AllDigits(t) == \A i \in 1..Len(t) : t[i] \in Digit

\* the value of at most nine leading digits, and the count of digits dropped
RECURSIVE DigitsVal(_, _)
DigitsVal(t, acc) ==
    IF t = <<>> \/ acc >= 100000000 THEN <<acc, Len(t)>>
    ELSE DigitsVal(Tail(t), 10 * acc + DigitVal(Head(t)))

\* index of the first character of t that is in set, 0 if none
RECURSIVE FindChar(_, _, _)
FindChar(t, set, i) ==
    IF i > Len(t) THEN 0 ELSE IF t[i] \in set THEN i ELSE FindChar(t, set, i + 1)

ValueError == [k |-> "ValueError"]

\* the exponent after "e": [sign] digits, or ValueError
ParseExp(t) ==
    LET signed == t # <<>> /\ Head(t) \in {"+", "-"}
        d == IF signed THEN Tail(t) ELSE t
        v == DigitsVal(d, 0)
    IN  IF d = <<>> \/ ~AllDigits(d) THEN ValueError
        ELSE [k |-> "exp",
              n |-> (IF signed /\ Head(t) = "-" THEN -1 ELSE 1)
                      * (IF v[2] > 0 \/ v[1] > 9999 THEN 9999 ELSE v[1])]

\* digits [. digits] [e exponent] with at least one digit, or ValueError
ParseDecimal(s, t) ==
    LET epos == FindChar(t, {"e", "E"}, 1)
        mant == IF epos = 0 THEN t ELSE SubSeq(t, 1, epos - 1)
        ex == IF epos = 0 THEN [k |-> "exp", n |-> 0]
              ELSE ParseExp(SubSeq(t, epos + 1, Len(t)))
        dot == FindChar(mant, {"."}, 1)
        ip == IF dot = 0 THEN mant ELSE SubSeq(mant, 1, dot - 1)
        fp == IF dot = 0 THEN <<>> ELSE SubSeq(mant, dot + 1, Len(mant))
        v == DigitsVal(ip \o fp, 0)
    IN  IF ex = ValueError \/ ~AllDigits(ip) \/ ~AllDigits(fp) \/ ip \o fp = <<>>
        THEN ValueError
        ELSE Fin(s, v[1], ex.n - Len(fp) + v[2])

\* float(text): surrounding whitespace ignored, optional sign, then
\* inf, infinity, nan in any case or a decimal number; else ValueError
ParseFloat(text) ==
    LET t == Strip(text)
        signed == t # <<>> /\ Head(t) \in {"+", "-"}
        s == IF signed /\ Head(t) = "-" THEN -1 ELSE 1
        body == IF signed THEN Tail(t) ELSE t
    IN  IF Lower(body) \in {<<"i", "n", "f">>,
                            <<"i", "n", "f", "i", "n", "i", "t", "y">>}
        THEN Inf(s)
        ELSE IF Lower(body) = <<"n", "a", "n">> THEN NaN
        ELSE ParseDecimal(s, body)

(***************************************************************************)
(* Values a record attribute can hold: None, a str, or a float object      *)
(* that is nan or infinite (a finite float object behaves as the text of   *)
(* its repr does).                                                         *)
(***************************************************************************)
None == [k |-> "None"]
Text(t) == [k |-> "text", t |-> t]

\* str(value)
Str(v) ==
    CASE v.k = "text" -> v.t
      [] v.k = "None" -> <<"N", "o", "n", "e">>
      [] v.k = "nan" -> <<"n", "a", "n">>
      [] v.k = "inf" -> IF v.s > 0 THEN <<"i", "n", "f">> ELSE <<"-", "i", "n", "f">>

\* float(value) of a value that is not None
Float(v) == IF v.k = "text" THEN ParseFloat(v.t) ELSE v

Sentinels == {<<"i", "n", "f">>, <<"-", "i", "n", "f">>, <<"n", "a", "n">>}

\* 1e15, the ceiling of _safe_float
CeilingExp == 15
Ceiling == [k |-> "fin", s |-> 1, m |-> 1, e |-> CeilingExp]

\* _safe_float(value): a float or None
SafeFloat(value) ==
    IF value = None THEN None
    ELSE LET result == Float(value)
             cleaned == RemoveCommas(Strip(Str(value)))
             retry == ParseFloat(cleaned)
         IN  IF result = ValueError
             THEN (IF retry = ValueError THEN None ELSE retry)
             ELSE IF Lower(Str(value)) \in Sentinels THEN None
             ELSE IF Gt(Abs(result), Ceiling) THEN None
             ELSE result

(***************************************************************************)
(* Input records: any object; attrs is the set of attributes it has.       *)
(***************************************************************************)
TimingAttrs ==
    {"period_seconds", "countdown_seconds", "last_settlement_time",
     "current_settlement_time", "next_settlement_time"}

AllAttrs == {"exchange", "symbol", "latest_price", "funding_rate"} \cup TimingAttrs

\* hasattr(item, name)
HasAttr(item, name) == name \in item.attrs

\* a symbol that is a list cannot be a dict key
UnhashableSymbols == {"['BTC']"}
Hashable(symbol) == symbol \notin UnhashableSymbols

\* an input record lacking the attributes in missing; of the five timing
\* values, all copied through alike, the model carries period_seconds
Record(exchange, symbol, price, rate, missing) ==
    [attrs |-> AllAttrs \ missing, exchange |-> exchange, symbol |-> symbol,
     latest_price |-> price, funding_rate |-> rate, period_seconds |-> 28800]

\* _is_basic_valid(item)
IsBasicValid(item) ==
    IF ~HasAttr(item, "exchange") \/ ~HasAttr(item, "symbol") THEN FALSE
    ELSE IF ~HasAttr(item, "latest_price") THEN FALSE
    ELSE IF item.exchange \notin {"okx", "binance"} THEN FALSE
    ELSE TRUE

\* next((item for item in items if item.exchange == exchange), None), as the
\* index of the item, 0 for None
RECURSIVE FirstOf(_, _, _)
FirstOf(items, exchange, i) ==
    IF i > Len(items) THEN 0
    ELSE IF items[i].exchange = exchange THEN i
    ELSE FirstOf(items, exchange, i + 1)

\* x or 0
OrZero(x) == IF x = None \/ (IsFin(x) /\ x.m = 0) THEN Zero ELSE x

\* 1e-10, the floor of the percentage's denominator
FloorExp == -10
Floor == [k |-> "fin", s |-> 1, m |-> 1, e |-> FloorExp]

\* CrossPlatformData.__post_init__: the price_validation tag
PriceValidation(okx_price, binance_price) ==
    LET a == ParseFloat(okx_price)
        b == ParseFloat(binance_price)
    IN  IF a = ValueError \/ b = ValueError THEN "error"
        ELSE IF Gt(a, Zero) /\ Gt(b, Zero) THEN "valid" ELSE "invalid"

NoData == [k |-> "None"]

\* PricePercent with a slip: the okx price as the denominator, not the lower
PricePercentOverOkx(st, okx_price, binance_price, price_diff) ==
    IF Gt(okx_price, Zero) /\ Gt(binance_price, Zero)
    THEN IF Gt(Min(okx_price, binance_price), Floor)
         THEN [stats |-> st, percent |-> Mul100(Div(price_diff, okx_price))]
         ELSE [stats |-> [st EXCEPT !.price_too_low = @ + 1], percent |-> Zero]
    ELSE [stats |-> st, percent |-> Zero]

\* PricePercent with a slip: a price under the floor is not counted
PricePercentUncounted(st, okx_price, binance_price, price_diff) ==
    IF Gt(okx_price, Zero) /\ Gt(binance_price, Zero)
    THEN IF Gt(Min(okx_price, binance_price), Floor)
         THEN [stats |-> st,
               percent |-> Mul100(Div(price_diff, Min(okx_price, binance_price)))]
         ELSE [stats |-> st, percent |-> Zero]
    ELSE [stats |-> st, percent |-> Zero]

\* price_diff_percent and the stats after lines 199-209
PricePercent(st, okx_price, binance_price, price_diff) ==
    IF Gt(okx_price, Zero) /\ Gt(binance_price, Zero)
    THEN LET min_price == Min(okx_price, binance_price)
         IN  IF Gt(min_price, Floor)
             THEN [stats |-> st, percent |-> Mul100(Div(price_diff, min_price))]
             ELSE [stats |-> [st EXCEPT !.price_too_low = @ + 1], percent |-> Zero]
    ELSE [stats |-> st, percent |-> Zero]

\* MissingStats with a slip: either absence counts against both exchanges
MissingStatsBoth(st, no_okx, no_binance) ==
    [st EXCEPT !.okx_missing = @ + 1, !.binance_missing = @ + 1]

\* the stats after lines 177-180, given which item is None
MissingStats(st, no_okx, no_binance) ==
    [st EXCEPT !.okx_missing = IF no_okx THEN @ + 1 ELSE @,
               !.binance_missing = IF no_binance THEN @ + 1 ELSE @]

\* lines 227-252: the record built of both items
CrossPlatformData(symbol, okx_item, binance_item, price_diff, percent, rate_diff) ==
    [k |-> "CrossPlatformData",
     symbol |-> symbol,
     price_diff |-> price_diff,
     price_diff_percent |-> percent,
     rate_diff |-> rate_diff,
     okx_price |-> Str(okx_item.latest_price),
     okx_funding_rate |-> Str(okx_item.funding_rate),
     binance_price |-> Str(binance_item.latest_price),
     binance_funding_rate |-> Str(binance_item.funding_rate),
     okx_period_seconds |-> okx_item.period_seconds,
     binance_period_seconds |-> binance_item.period_seconds,
     price_validation |-> PriceValidation(Str(okx_item.latest_price),
                                          Str(binance_item.latest_price))]

\* lines 212-218: rate_diff
RateDiff(okx_item, binance_item) ==
    Abs(Sub(OrZero(SafeFloat(okx_item.funding_rate)),
            OrZero(SafeFloat(binance_item.funding_rate))))

\* lines 211-252, pp being what lines 199-209 left: a record without
\* funding_rate raises inside the try and is caught at line 220, one without a
\* timing attribute raises in the constructor call, outside it
MergeRates(pp, symbol, okx_item, binance_item, price_diff) ==
    IF ~HasAttr(okx_item, "funding_rate") \/ ~HasAttr(binance_item, "funding_rate")
    THEN [stats |-> [pp.stats EXCEPT !.calc_errors = @ + 1],
          data |-> NoData, exc |-> "caught"]
    ELSE IF ~(TimingAttrs \subseteq okx_item.attrs)
            \/ ~(TimingAttrs \subseteq binance_item.attrs)
    THEN [stats |-> pp.stats, data |-> NoData, exc |-> "raised"]
    ELSE [stats |-> pp.stats,
          data |-> CrossPlatformData(symbol, okx_item, binance_item, price_diff,
                                     pp.percent, RateDiff(okx_item, binance_item)),
          exc |-> "none"]

\* lines 199-252, price_diff being that of line 197
MergePercent(st, symbol, okx_item, binance_item, okx_price, binance_price, price_diff) ==
    MergeRates(PricePercent(st, okx_price, binance_price, price_diff),
               symbol, okx_item, binance_item, price_diff)

\* lines 197-252
MergePrices(st, symbol, okx_item, binance_item, okx_price, binance_price) ==
    MergePercent(st, symbol, okx_item, binance_item, okx_price, binance_price,
                 Abs(Sub(okx_price, binance_price)))

\* lines 190-252, p1 and p2 being what _safe_float made of the two prices
MergeParsed(st, symbol, okx_item, binance_item, p1, p2) ==
    IF p1 = None \/ p2 = None
    THEN MergePrices([st EXCEPT !.price_invalid = @ + 1], symbol, okx_item,
                     binance_item, OrZero(p1), OrZero(p2))
    ELSE MergePrices(st, symbol, okx_item, binance_item, p1, p2)

\* lines 176-252, io and ib being the places of okx_item and binance_item
MergeItems(st, symbol, items, io, ib) ==
    IF io = 0 \/ ib = 0
    THEN [stats |-> MissingStats(st, io = 0, ib = 0), data |-> NoData, exc |-> "none"]
    ELSE MergeParsed(st, symbol, items[io], items[ib],
                     SafeFloat(items[io].latest_price),
                     SafeFloat(items[ib].latest_price))

\* _merge_pair(symbol, items) on stats st: the stats after it, the record
\* returned (NoData for None), and what became of an exception: "caught"
\* by its own handler (line 220) or "raised" to the caller
MergePair(st, symbol, items) ==
    MergeItems(st, symbol, items, FirstOf(items, "okx", 1), FirstOf(items, "binance", 1))

\* __init__: the stats of a new instance (0 stands for None in the two times)
InitStats ==
    [total_processed |-> 0, successful |-> 0, failed |-> 0, okx_missing |-> 0,
     binance_missing |-> 0, price_invalid |-> 0, calc_errors |-> 0,
     price_too_low |-> 0, start_time |-> 0, end_time |-> 0]

Pending == [k |-> "pending"]
Idle == [k |-> "idle"]

(***************************************************************************)
(* process(platform_results)                                               *)
(***************************************************************************)
\* lines 128-137: what process() makes of r, the outcome of _merge_pair
Counted(r) ==
    IF r.exc = "raised"
    THEN [r EXCEPT !.stats = [r.stats EXCEPT !.failed = @ + 1, !.calc_errors = @ + 1]]
    ELSE IF r.data # NoData
    THEN [r EXCEPT !.stats = [r.stats EXCEPT !.successful = @ + 1]]
    ELSE r

\* one iteration of the loop over grouped.items(), lines 125-137
ProcessSymbol(st, symbol, items) == Counted(MergePair(st, symbol, items))

\* the keys of grouped, in the order a dict keeps: first insertion
RECURSIVE GroupKeys(_, _)
GroupKeys(items, seen) ==
    IF items = <<>> THEN seen
    ELSE IF \E i \in 1..Len(seen) : seen[i] = Head(items).symbol
    THEN GroupKeys(Tail(items), seen)
    ELSE GroupKeys(Tail(items), Append(seen, Head(items).symbol))

\* grouped[symbol]: the valid items of the symbol, in input order
Group(items, symbol) == SelectSeq(items, LAMBDA it : it.symbol = symbol)

\* the stats, the results and the steps after an iteration that ended as r
Iterated(acc, symbol, r) ==
    [stats |-> r.stats,
     results |-> IF r.data # NoData THEN Append(acc.results, r.data) ELSE acc.results,
     steps |-> Append(acc.steps,
                      [symbol |-> symbol, before |-> acc.stats, after |-> r.stats,
                       emitted |-> r.data # NoData, exc |-> r.exc])]

\* the loop of lines 125-137 over the groups keys[i..]: the stats and the
\* results after it, and one entry of steps for every iteration
RECURSIVE MergeAll(_, _, _, _)
MergeAll(valid, keys, i, acc) ==
    IF i > Len(keys) THEN acc
    ELSE MergeAll(valid, keys, i + 1,
                  Iterated(acc, keys[i],
                           ProcessSymbol(acc.stats, keys[i], Group(valid, keys[i]))))

\* get_detailed_report(): processing_time_seconds
ProcessingTimeSeconds(st) ==
    IF st.start_time # 0 /\ st.end_time # 0 THEN st.end_time - st.start_time ELSE 0

\* get_detailed_report(): success_rate, as numerator and denominator
SuccessRate(st) ==
    [num |-> st.successful,
     den |-> IF st.total_processed > 1 THEN st.total_processed ELSE 1]

(***************************************************************************)
(* Spec: process() calls on one instance.  A timestamp is the reading of   *)
(* a clock that advances with every datetime.now(); 0 stands for None.     *)
(***************************************************************************)
T100 == <<"1", "0", "0">>
T101 == <<"1", "0", "1">>
TLow == <<"1", "e", "-", "1", "1">>
TAbc == <<"a", "b", "c">>
TNan == <<" ", "n", "a", "n">>
TRate1 == <<"0", ".", "0", "1">>
TRate2 == <<"0", ".", "0", "2">>

\* the records a batch is made of
Records ==
    {Record("okx", s, Text(T100), Text(TRate1), {}) : s \in {"BTC", "ETH"}}
    \cup {Record("binance", s, Text(T101), Text(TRate2), {}) : s \in {"BTC", "ETH"}}
    \cup {Record("okx", "BTC", Text(p), Text(TRate1), {}) : p \in {TLow, TAbc, TNan}}
    \cup {Record("okx", "BTC", Text(T100), None, {"funding_rate"}),
          Record("binance", "BTC", Text(T101), Text(TRate2), {"next_settlement_time"}),
          Record("huobi", "BTC", Text(T100), Text(TRate1), {}),
          Record("okx", "ETH", None, Text(TRate1), {"latest_price"}),
          Record("binance", "['BTC']", Text(T101), Text(TRate2), {})}

Batches == UNION {[1..n -> Records] : n \in 0..MaxBatch}

Init ==
    /\ stats = InitStats
    /\ clock = 0
    /\ calls = 0
    /\ ret = Idle
    /\ steps = <<>>
    /\ arg = Idle
    /\ res = Idle

\* lines 139-146: the loop is over, done holds what it left
Return(done) ==
    /\ stats' = [done.stats EXCEPT !.end_time = clock + 2]
    /\ clock' = clock + 2
    /\ ret' = [k |-> "returned", v |-> done.results]
    /\ steps' = done.steps

\* lines 112-146, st0 being the stats after line 102 and valid the records
\* that pass _is_basic_valid: a symbol that cannot be hashed raises at line 117
GroupAndMerge(st0, valid) ==
    IF \E i \in 1..Len(valid) : ~Hashable(valid[i].symbol)
    THEN /\ stats' = st0
         /\ clock' = clock + 1
         /\ ret' = [k |-> "raised", v |-> "TypeError"]
         /\ steps' = <<>>
    ELSE Return(MergeAll(valid, GroupKeys(valid, <<>>), 1,
                         [stats |-> st0, results |-> <<>>, steps |-> <<>>]))

\* lines 101-146, st0 being the stats after line 102
Started(st0, batch) ==
    IF batch = <<>>
    THEN /\ stats' = st0
         /\ clock' = clock + 1
         /\ ret' = [k |-> "returned", v |-> <<>>]
         /\ steps' = <<>>
    ELSE GroupAndMerge(st0, SelectSeq(batch, IsBasicValid))

\* process(batch), lines 97-146
Run(batch) ==
    /\ calls' = calls + 1
    /\ UNCHANGED res
    /\ Started([stats EXCEPT !.start_time = clock + 1,
                             !.total_processed = Len(batch)], batch)

\* one more call on the instance
Process(batch) ==
    /\ calls < MaxCalls
    /\ Run(batch)
    /\ UNCHANGED arg

Next == \E batch \in Batches : Process(batch)

Spec == Init /\ [][Next]_vars

(***************************************************************************)
(* SpecBatch: the first process() call on a new instance; arg keeps the    *)
(* batch it was given.                                                     *)
(***************************************************************************)
ProcessOnce(batch) ==
    /\ calls = 0
    /\ Run(batch)
    /\ arg' = [k |-> "batch", v |-> batch]

NextBatch == \E batch \in Batches : ProcessOnce(batch)

SpecBatch == Init /\ [][NextBatch]_vars

(***************************************************************************)
(* SpecMerge: one _merge_pair call on the group of a symbol that has a     *)
(* record of both exchanges, on an instance that has counted before.       *)
(***************************************************************************)
PriceInputs ==
    {None, NaN, Inf(1)} \cup
    {Text(t) : t \in {T100, T101, TLow, TAbc, TNan,
                      <<"2", "e", "-", "1", "1">>, <<"1", "e", "-", "1", "0">>,
                      <<"0">>, <<"-", "5">>, <<"1", ",", "e", "1", "6">>,
                      <<"i", "n", ",", "f">>,
                      <<"1", ",", "2", "3", "4", ".", "5">>}}

RateInputs == {None} \cup {Text(t) : t \in {TRate1, TRate2, TNan}}

MergeInputs ==
    {[k |-> "group", symbol |-> "BTC",
      items |-> <<Record("okx", "BTC", p1, r1, missing),
                  Record("binance", "BTC", p2, r2, {})>>] :
        p1 \in PriceInputs, p2 \in PriceInputs, r1 \in RateInputs,
        r2 \in RateInputs,
        missing \in {{}, {"funding_rate"}, {"next_settlement_time"}}}

InitMerge ==
    /\ stats \in {InitStats, [InitStats EXCEPT !.price_too_low = 1, !.calc_errors = 1]}
    /\ clock = 0 /\ calls = 0 /\ ret = Idle /\ steps = <<>>
    /\ arg \in MergeInputs
    /\ res = Pending

\* _merge_pair returned (or raised) r
Merged(r) ==
    /\ stats' = r.stats
    /\ res' = [k |-> "merged", before |-> stats, data |-> r.data, exc |-> r.exc]

CallMergePair ==
    /\ res = Pending
    /\ Merged(MergePair(stats, arg.symbol, arg.items))
    /\ UNCHANGED <<clock, calls, ret, steps, arg>>

NextMerge == CallMergePair

SpecMerge == InitMerge /\ [][NextMerge]_vars

(***************************************************************************)
(* SpecParse: one _safe_float call; arg is the value, res what it returns. *)
(***************************************************************************)
Alphabet == {"1", "0", "e", ",", " ", "-", ".", "n", "a", "N"}

RECURSIVE TextsOfLen(_)
TextsOfLen(n) ==
    IF n = 0 THEN {<<>>}
    ELSE {<<c>> \o t : c \in Alphabet, t \in TextsOfLen(n - 1)}

Texts == UNION {TextsOfLen(n) : n \in 0..MaxTextLen}

NamedTexts ==
    { <<"n", "a", "n">>, <<"i", "n", "f">>, <<"-", "i", "n", "f">>,
      <<"N", "a", "N">>, <<"I", "N", "F">>, <<"+", "i", "n", "f">>,
      <<" ", "n", "a", "n">>, <<"n", "a", "n", " ">>, <<"-", "n", "a", "n">>,
      <<"i", "n", ",", "f">>, <<"n", ",", "a", "n">>,
      <<"a", "b", "c">>,
      <<"1", ",", "2", "3", "4", ".", "5">>,
      <<"1", "2", "3", "4", ".", "5">>,
      <<"1", "e", "1", "5">>, <<"1", "e", "1", "6">>, <<"-", "1", "e", "1", "6">>,
      <<"1", ",", "e", "1", "6">>, <<"-", "1", "e", "1", ",", "6">>,
      <<"1", "e", "4", "0", "0">>, <<"1", ",", "e", "4", "0", "0">>,
      <<"1", "e", "-", "4", "0", "0">>,
      <<"1", ",", "0", "0", "0", ",", "0", "0", "0", ",", "0", "0", "0", ",",
        "0", "0", "0", ",", "0", "0", "0", ",", "0", "0", "0">>,
      <<"1", "0", "0", "0", "0", "0", "0", "0", "0", "0", "0", "0", "0", "0",
        "0", "0", "0">> }

ParseInputs ==
    {None, NaN, Inf(1), Inf(-1)} \cup {Text(t) : t \in Texts \cup NamedTexts}

InitParse ==
    /\ stats = InitStats /\ clock = 0 /\ calls = 0 /\ ret = Idle /\ steps = <<>>
    /\ arg \in ParseInputs
    /\ res = Pending

CallSafeFloat ==
    /\ res = Pending
    /\ res' = [k |-> "returned", v |-> SafeFloat(arg)]
    /\ UNCHANGED <<stats, clock, calls, ret, steps, arg>>

NextParse == CallSafeFloat

SpecParse == InitParse /\ [][NextParse]_vars

(***************************************************************************)
(* The claims.                                                             *)
(***************************************************************************)
Counters ==
    {"total_processed", "successful", "failed", "okx_missing", "binance_missing",
     "price_invalid", "price_too_low", "calc_errors"}

\* C1: no process() call leaves a cumulative counter of stats lower than it
\* found it, total_processed included.
C1_CountersNeverDecrease == [][\A c \in Counters : stats'[c] >= stats[c]]_vars

\* a record that passes the structural check, in the words of the spec
StructurallyValid(r) ==
    /\ {"exchange", "symbol", "latest_price"} \subseteq r.attrs
    /\ r.exchange \in {"okx", "binance"}

HasRecord(batch, symbol, exchange) ==
    \E i \in 1..Len(batch) :
        StructurallyValid(batch[i]) /\ batch[i].symbol = symbol
        /\ batch[i].exchange = exchange

GroupedSymbols(batch) ==
    {batch[i].symbol : i \in {j \in 1..Len(batch) : StructurallyValid(batch[j])}}

Emitted(symbol) == \E j \in 1..Len(ret.v) : ret.v[j].symbol = symbol

\* C2: a symbol whose group lacks the okx or the binance record gets no
\* merged record, the missing counter of the absent exchange goes up by
\* exactly one for it, the other missing counter and successful stay; and
\* every merged record is of a symbol with a valid record of both exchanges.
C2_MissingSideSkipsAndCounts ==
    (arg.k = "batch" /\ ret.k = "returned") =>
        /\ \A symbol \in GroupedSymbols(arg.v) :
               Cardinality({i \in 1..Len(steps) : steps[i].symbol = symbol}) = 1
        /\ \A i \in 1..Len(steps) :
               LET s == steps[i]
                   no_okx == ~HasRecord(arg.v, s.symbol, "okx")
                   no_binance == ~HasRecord(arg.v, s.symbol, "binance")
               IN  (no_okx \/ no_binance) =>
                       /\ ~Emitted(s.symbol)
                       /\ s.after.okx_missing
                            = s.before.okx_missing + (IF no_okx THEN 1 ELSE 0)
                       /\ s.after.binance_missing
                            = s.before.binance_missing + (IF no_binance THEN 1 ELSE 0)
                       /\ s.after.successful = s.before.successful
        /\ \A j \in 1..Len(ret.v) :
               /\ HasRecord(arg.v, ret.v[j].symbol, "okx")
               /\ HasRecord(arg.v, ret.v[j].symbol, "binance")
        /\ stats.okx_missing
             = Cardinality({y \in GroupedSymbols(arg.v) : ~HasRecord(arg.v, y, "okx")})
        /\ stats.binance_missing
             = Cardinality({y \in GroupedSymbols(arg.v) : ~HasRecord(arg.v, y, "binance")})

\* a batch with a symbol of one exchange only, next to a symbol that is merged
C2_Witness ==
    /\ arg.k = "batch" /\ ret.k = "returned"
    /\ \E y \in GroupedSymbols(arg.v) :
           ~HasRecord(arg.v, y, "okx") /\ stats.okx_missing = 1
    /\ Len(ret.v) = 1

\* C3: an exception while merging a symbol that has both records skips the
\* symbol and adds exactly one to failed and one to calc_errors.
C3_ExceptionCountsFailedAndCalcError ==
    \A i \in 1..Len(steps) :
        steps[i].exc # "none" =>
            /\ ~steps[i].emitted
            /\ steps[i].after.failed = steps[i].before.failed + 1
            /\ steps[i].after.calc_errors = steps[i].before.calc_errors + 1

\* a symbol all of whose okx and binance records carry every attribute, and
\* that has one of each
WellFormedPair(batch, symbol) ==
    /\ HasRecord(batch, symbol, "okx")
    /\ HasRecord(batch, symbol, "binance")
    /\ \A i \in 1..Len(batch) :
           (HasAttr(batch[i], "symbol") /\ batch[i].symbol = symbol)
               => batch[i].attrs = AllAttrs

\* C4: process() returns a list whatever the batch holds, and every symbol
\* with well-formed records of both exchanges has its merged record in it.
C4_NeverRaisesAndKeepsGoodSymbols ==
    arg.k = "batch" =>
        /\ ret.k = "returned"
        /\ \A i \in 1..Len(arg.v) :
               WellFormedPair(arg.v, arg.v[i].symbol) => Emitted(arg.v[i].symbol)

\* a number that is defined and not below zero
DefinedNonNegative(x) == x # None /\ ~IsNaN(x) /\ ~Lt(x, Zero)

\* C5: price_diff and rate_diff of every emitted record are defined numbers,
\* never nan, and not below zero.
C5_DiffsDefinedAndNonNegative ==
    ret.k = "returned" =>
        \A j \in 1..Len(ret.v) :
            /\ DefinedNonNegative(ret.v[j].price_diff)
            /\ DefinedNonNegative(ret.v[j].rate_diff)

\* C6: _safe_float returns None for None, for nan, inf and -inf in any case,
\* for "abc" and for every input whose magnitude exceeds 1e15 on either
\* conversion path, and 1234.5 for "1,234.5".
C6_SafeFloatRejectsUnsafe ==
    res.k = "returned" =>
        /\ (arg = None => res.v = None)
        /\ (arg.k = "text" /\ Lower(arg.t) \in Sentinels) => res.v = None
        /\ (arg = Text(TAbc) => res.v = None)
        /\ (arg = Text(<<"1", ",", "2", "3", "4", ".", "5">>)
               => res.v = [k |-> "fin", s |-> 1, m |-> 12345, e |-> -1])
        /\ (res.v # None => ~Gt(Abs(res.v), Ceiling))

\* the two parsed prices of the group handed to _merge_pair
ParsedOkx == SafeFloat(arg.items[1].latest_price)
ParsedBinance == SafeFloat(arg.items[2].latest_price)
Positive(x) == x # None /\ Gt(x, Zero)
BothPositive == Positive(ParsedOkx) /\ Positive(ParsedBinance)
PercentFormula == Mul100(Div(Abs(Sub(ParsedOkx, ParsedBinance)), Min(ParsedOkx, ParsedBinance)))

\* C7 as stated: with both parsed prices strictly positive, the emitted
\* price_diff_percent is |pA - pB| / min(pA, pB) * 100 and price_diff is
\* |pA - pB|.
C7_PercentIsFormula ==
    (res.k = "merged" /\ res.data # NoData /\ BothPositive) =>
        /\ res.data.price_diff_percent = PercentFormula
        /\ res.data.price_diff = Abs(Sub(ParsedOkx, ParsedBinance))

\* C7 as amended: the same, for prices whose minimum is above 1e-10.
C7_PercentIsFormulaAboveFloor ==
    (res.k = "merged" /\ res.data # NoData /\ BothPositive
     /\ Gt(Min(ParsedOkx, ParsedBinance), Floor)) =>
        /\ res.data.price_diff_percent = PercentFormula
        /\ res.data.price_diff = Abs(Sub(ParsedOkx, ParsedBinance))

\* two different positive prices above the floor, merged
C7_Witness ==
    /\ res.k = "merged" /\ res.data # NoData /\ BothPositive
    /\ Gt(Min(ParsedOkx, ParsedBinance), Floor)
    /\ Lt(ParsedBinance, ParsedOkx)
    /\ res.data.price_diff_percent # Zero

\* C8: with both parsed prices positive and their minimum below 1e-10 the
\* emitted percentage is exactly 0.0 and price_too_low goes up by exactly
\* one; with the minimum above the floor, or the prices not both positive,
\* price_too_low stays.
C8_TooLowIsZeroAndCounted ==
    res.k = "merged" =>
        /\ (BothPositive /\ Lt(Min(ParsedOkx, ParsedBinance), Floor)) =>
               /\ stats.price_too_low = res.before.price_too_low + 1
               /\ (res.data # NoData => res.data.price_diff_percent = Zero)
        /\ (~BothPositive \/ Gt(Min(ParsedOkx, ParsedBinance), Floor)) =>
               stats.price_too_low = res.before.price_too_low

\* a merged record of a price below the floor, on an instance that had
\* counted one before
C8_Witness ==
    /\ res.k = "merged" /\ res.data # NoData /\ BothPositive
    /\ Lt(Min(ParsedOkx, ParsedBinance), Floor)
    /\ stats.price_too_low = 2

\* C9: successful never exceeds total_processed, so the success rate of
\* get_detailed_report() is between 0 and 1.
C9_SuccessRateWithinUnit ==
    /\ stats.successful <= stats.total_processed
    /\ SuccessRate(stats).num <= SuccessRate(stats).den

\* C10: when both times are set, end_time is not earlier than start_time,
\* so processing_time_seconds is not negative.
C10_EndNotBeforeStart ==
    (stats.start_time # 0 /\ stats.end_time # 0) =>
        /\ stats.end_time >= stats.start_time
        /\ ProcessingTimeSeconds(stats) >= 0

====
